---------------------------- MODULE Spec2Model ----------------------------
(***************************************************************************)
(* A model of generate_avatar.py: the hex colour parser, the feature       *)
(* parser, one shaping-and-measuring pass, the text mask, the auto-fit     *)
(* search and compositing of build_avatar, and the CLI driver main.        *)
(*                                                                         *)
(* Strings are sequences of one-character strings.  Pen coordinates, which *)
(* the program holds as floats, are held exactly, as integer multiples of  *)
(* 1/upem of a pixel (the products x_advance * px_size / upem are          *)
(* rationals with denominator upem).  The shaping engine, the rasterizer   *)
(* and the image library are collaborators outside the program; they are   *)
(* modelled by a small family of fonts whose glyph bitmaps depend on the   *)
(* pixel size in several ways (scaled outlines, blank, oversized strikes). *)
(***************************************************************************)
EXTENDS Integers, Sequences, FiniteSets, TLC

VARIABLES
    pc,                 \* position of the run: which statement comes next
    raised,             \* the exception that ended the run, or "none"
    args,               \* argparse.Namespace of main (parse_args), or None
    features,           \* main: parse_features(args.features), or None
    bg, fg,             \* main: the parsed RGBA tuples, or None
    text,               \* build_avatar argument: characters to render
    face,               \* the font loaded from font_path (its behaviour)
    shape,              \* build_avatar argument
    size,               \* build_avatar argument
    glow_color,         \* build_avatar argument (RGBA tuple), or None
    glow_blur,          \* build_avatar argument
    fit_width_ratio,    \* build_avatar argument, in hundredths
    fit_height_ratio,   \* build_avatar argument, in hundredths
    font_loaded,        \* freetype.Face / hb.Face have been constructed
    passes,             \* every shape_and_measure call made so far, in order
    chosen,             \* build_avatar local: None or (px, bbox, placements)
    text_mask,          \* build_avatar local: None or the mask built
    canvas,             \* build_avatar local: None or the image and its pastes
    fs,                 \* the file system: events mkdir / save, in order
    returned,           \* what build_avatar returned, or None
    value,              \* parse_color argument under test
    color,              \* parse_color outcome under test
    px_size,            \* shape_and_measure argument under test
    measured            \* shape_and_measure locals and result under test

vars == <<pc, raised, args, features, bg, fg, text, face, shape, size,
          glow_color, glow_blur, fit_width_ratio, fit_height_ratio,
          font_loaded, passes, chosen, text_mask, canvas, fs, returned,
          value, color, px_size, measured>>

None == [none |-> TRUE]

-----------------------------------------------------------------------------
(* Bounds of the model *)

\* longest shaped glyph run
MaxGlyphs == 3

\* most characters of a colour string that are not the hex digit "f"
MaxStray == 3

-----------------------------------------------------------------------------
(* Numbers *)

Max(a, b) == IF a >= b THEN a ELSE b
Min(a, b) == IF a <= b THEN a ELSE b

\* float("inf") and float("-inf"): beyond every coordinate of the model
PosInf == 1000000000
NegInf == -1000000000

\* Python round() of the non-negative rational n/d: to nearest, ties to even
RoundHalfEven(n, d) ==
    LET q == n \div d
        r == n % d
    IN  IF 2 * r < d THEN q
        ELSE IF 2 * r > d THEN q + 1
        ELSE IF q % 2 = 0 THEN q ELSE q + 1

\* The sizes 0..3000 at which the double product size * 0.70 lies just under
\* the integer 7*size/10 (0.70 is not a double; the nearest double is
\* smaller), so that int() truncates to one less.
Short70(n) ==
    /\ n % 10 = 0
    /\ LET k == n \div 10
       IN  \/ k = 9
           \/ 17 <= k /\ k <= 18
           \/ 33 <= k /\ k <= 36
           \/ 65 <= k /\ k <= 73
           \/ 129 <= k /\ k <= 146
           \/ 257 <= k /\ k <= 292

\* int(size * 0.70), int(size * 0.08), int(size / 170) for 0 <= size <= 3000
IntMul070(n) == IF Short70(n) THEN (7 * n) \div 10 - 1 ELSE (7 * n) \div 10
IntMul008(n) == (8 * n) \div 100
IntDiv170(n) == n \div 170

-----------------------------------------------------------------------------
(* Strings *)

IsSpace(c) == c = " "

RECURSIVE LStrip(_)
LStrip(s) == IF s # <<>> /\ IsSpace(Head(s)) THEN LStrip(Tail(s)) ELSE s

RECURSIVE RStrip(_)
RStrip(s) ==
    IF s # <<>> /\ IsSpace(s[Len(s)]) THEN RStrip(SubSeq(s, 1, Len(s) - 1))
    ELSE s

\* str.strip()
Strip(s) == RStrip(LStrip(s))

HexDigits == {"0", "1", "f", "F"}
HexValue(c) == CASE c = "0" -> 0 [] c = "1" -> 1 [] c = "f" -> 15 [] c = "F" -> 15

\* The digits part of an integer literal: digits, single underscores allowed
\* between digits only.
RECURSIVE DigitsOk(_, _, _)
DigitsOk(s, digits, prevDigit) ==
    IF s = <<>> THEN prevDigit
    ELSE IF Head(s) \in digits THEN DigitsOk(Tail(s), digits, TRUE)
    ELSE IF Head(s) = "_" THEN prevDigit /\ DigitsOk(Tail(s), digits, FALSE)
    ELSE FALSE

RECURSIVE HexMagnitude(_, _)
HexMagnitude(s, acc) ==
    IF s = <<>> THEN acc
    ELSE IF Head(s) = "_" THEN HexMagnitude(Tail(s), acc)
    ELSE HexMagnitude(Tail(s), 16 * acc + HexValue(Head(s)))

\* Python int(s, 16): surrounding whitespace is dropped, one sign is allowed,
\* then come the digits.  (The optional 0x prefix needs an "x", a character
\* no input of the model holds.)
IntBase16(s) ==
    LET t == Strip(s)
        signed == t # <<>> /\ Head(t) \in {"+", "-"}
        body == IF signed THEN Tail(t) ELSE t
    IN  IF ~DigitsOk(body, HexDigits, FALSE) THEN [ok |-> FALSE]
        ELSE [ok |-> TRUE,
              val |-> IF signed /\ Head(t) = "-" THEN 0 - HexMagnitude(body, 0)
                      ELSE HexMagnitude(body, 0)]

DecDigits == {"0", "1"}
DecValue(c) == CASE c = "0" -> 0 [] c = "1" -> 1

\* Python int(s): a decimal integer literal
IntBase10Ok(s) ==
    LET t == Strip(s)
        body == IF t # <<>> /\ Head(t) \in {"+", "-"} THEN Tail(t) ELSE t
    IN  DigitsOk(body, DecDigits, FALSE)

RECURSIVE DecMagnitude(_, _)
DecMagnitude(s, acc) ==
    IF s = <<>> THEN acc
    ELSE IF Head(s) = "_" THEN DecMagnitude(Tail(s), acc)
    ELSE DecMagnitude(Tail(s), 10 * acc + DecValue(Head(s)))

IntBase10(s) ==
    LET t == Strip(s)
        signed == t # <<>> /\ Head(t) \in {"+", "-"}
        body == IF signed THEN Tail(t) ELSE t
    IN  IF signed /\ Head(t) = "-" THEN 0 - DecMagnitude(body, 0)
        ELSE DecMagnitude(body, 0)

\* index of the first sep in s, or 0
RECURSIVE Find(_, _, _)
Find(s, sep, i) ==
    IF i > Len(s) THEN 0 ELSE IF s[i] = sep THEN i ELSE Find(s, sep, i + 1)

\* str.split(sep): a string without sep is one item, the empty string too
RECURSIVE Split(_, _)
Split(s, sep) ==
    LET i == Find(s, sep, 1)
    IN  IF i = 0 THEN <<s>>
        ELSE <<SubSeq(s, 1, i - 1)>> \o Split(SubSeq(s, i + 1, Len(s)), sep)

-----------------------------------------------------------------------------
(* parse_color *)

ValueError == [ok |-> FALSE, error |-> "ValueError"]

parse_color(v, alpha) ==
    LET stripped == Strip(v)
        hex == IF stripped # <<>> /\ Head(stripped) = "#" THEN Tail(stripped)
               ELSE stripped
    IN  IF Len(hex) # 6 THEN ValueError
        ELSE LET r == IntBase16(SubSeq(hex, 1, 2))
                 g == IntBase16(SubSeq(hex, 3, 4))
                 b == IntBase16(SubSeq(hex, 5, 6))
             IN  IF ~r.ok \/ ~g.ok \/ ~b.ok THEN ValueError
                 ELSE [ok |-> TRUE, rgba |-> <<r.val, g.val, b.val, alpha>>]

-----------------------------------------------------------------------------
(* parse_features *)

EmptyDict == [t \in {} |-> 0]
DictSet(d, k, v) == [t \in DOMAIN d \cup {k} |-> IF t = k THEN v ELSE d[t]]

\* The loop of parse_features over the items still to read; int() of a value
\* that is no integer literal raises ValueError and ends the loop.
RECURSIVE FeatureLoop(_, _)
FeatureLoop(items, acc) ==
    IF items = <<>> THEN [ok |-> TRUE, features |-> acc]
    ELSE LET token == Strip(Head(items))
             eq == Find(token, "=", 1)
             tag == Strip(SubSeq(token, 1, eq - 1))
             raw_value == Strip(SubSeq(token, eq + 1, Len(token)))
         IN  IF token = <<>> THEN FeatureLoop(Tail(items), acc)
             ELSE IF eq = 0 THEN FeatureLoop(Tail(items), DictSet(acc, token, 1))
             ELSE IF ~IntBase10Ok(raw_value) THEN ValueError
             ELSE FeatureLoop(Tail(items), DictSet(acc, tag, IntBase10(raw_value)))

parse_features(features_text) == FeatureLoop(Split(features_text, ","), EmptyDict)

-----------------------------------------------------------------------------
(* The font: shaping engine and rasterizer *)

\* hb_face.upem of the fonts of the model
UnitsPerEm == 1000

\* The characters of the texts: a capital letter, a space, a hyphen (a flat
\* glyph) and a combining accent (no advance, offset up and to the left).
TextChars == {"A", " ", "-", "^"}

\* hb.shape: one glyph per character, advances and offsets in font units
ShapeGlyph(c) ==
    CASE c = "A" -> [codepoint |-> "A", x_advance |-> 600, x_offset |-> 0, y_offset |-> 0]
      [] c = " " -> [codepoint |-> "space", x_advance |-> 600, x_offset |-> 0, y_offset |-> 0]
      [] c = "-" -> [codepoint |-> "hyphen", x_advance |-> 600, x_offset |-> 0, y_offset |-> 0]
      [] c = "^" -> [codepoint |-> "circumflexcomb", x_advance |-> 0, x_offset |-> -450, y_offset |-> 150]

HbShape(t) == [i \in 1..Len(t) |-> ShapeGlyph(t[i])]

\* Outline boxes in font units: width, height, left bearing, top bearing
Outline(gid) ==
    CASE gid = "A" -> [w |-> 500, h |-> 700, left |-> 50, top |-> 700]
      [] gid = "space" -> [w |-> 0, h |-> 0, left |-> 0, top |-> 0]
      [] gid = "hyphen" -> [w |-> 400, h |-> 2, left |-> 100, top |-> 300]
      [] gid = "circumflexcomb" -> [w |-> 300, h |-> 200, left |-> 0, top |-> 950]

\* What a font renders in a band of pixel sizes: its outlines scaled to the
\* size, nothing at all, or an embedded strike far larger than asked for.
Modes == {"scaled", "blank", "strike"}
Faces == [hi : Modes, mid : Modes, lo : Modes]

ModeAt(f, px) == IF px > 220 THEN f.hi ELSE IF px = 220 THEN f.mid ELSE f.lo

\* face.set_pixel_sizes(0, px); face.load_glyph(gid, FT_LOAD_RENDER): the
\* bitmap of the glyph slot.  A scaled outline thinner than a pixel renders
\* no rows.
LoadGlyph(f, gid, px) ==
    LET o == Outline(gid)
        mode == ModeAt(f, px)
    IN  IF mode = "blank" \/ o.w = 0
        THEN [width |-> 0, rows |-> 0, bitmap_left |-> 0, bitmap_top |-> 0]
        ELSE IF mode = "strike"
        THEN [width |-> 4000, rows |-> 4000, bitmap_left |-> 0, bitmap_top |-> 4000]
        ELSE [width |-> (o.w * px) \div UnitsPerEm,
              rows |-> (o.h * px) \div UnitsPerEm,
              bitmap_left |-> (o.left * px) \div UnitsPerEm,
              bitmap_top |-> (o.top * px) \div UnitsPerEm]

-----------------------------------------------------------------------------
(* shape_and_measure *)

\* the locals before the loop
ShapeStart ==
    [pen_x |-> 0, placements |-> <<>>, min_x |-> PosInf, min_y |-> PosInf,
     max_x |-> NegInf, max_y |-> NegInf, glyph_names |-> <<>>]

\* Variant of HasInk: "or" in place of "and"
HasInkEither(bitmap) == bitmap.width > 0 \/ bitmap.rows > 0

\* bitmap.width > 0 and bitmap.rows > 0
HasInk(bitmap) == bitmap.width > 0 /\ bitmap.rows > 0

\* One iteration of the loop: glyph (info, pos) at pixel size px, locals st.
\* Coordinates are in units of 1/UnitsPerEm pixel.
ShapeStep(f, glyph, px, st) ==
    LET bitmap == LoadGlyph(f, glyph.codepoint, px)
        x_offset == glyph.x_offset * px
        y_offset == glyph.y_offset * px
        gx == st.pen_x + x_offset + bitmap.bitmap_left * UnitsPerEm
        gy == (0 - y_offset) - bitmap.bitmap_top * UnitsPerEm
        ink == HasInk(bitmap)
    IN  [pen_x |-> st.pen_x + glyph.x_advance * px,
         placements |-> Append(st.placements,
                               [x |-> gx, y |-> gy,
                                width |-> bitmap.width, height |-> bitmap.rows]),
         min_x |-> IF ink THEN Min(st.min_x, gx) ELSE st.min_x,
         min_y |-> IF ink THEN Min(st.min_y, gy) ELSE st.min_y,
         max_x |-> IF ink THEN Max(st.max_x, gx + bitmap.width * UnitsPerEm)
                   ELSE st.max_x,
         max_y |-> IF ink THEN Max(st.max_y, gy + bitmap.rows * UnitsPerEm)
                   ELSE st.max_y,
         glyph_names |-> Append(st.glyph_names, glyph.codepoint)]

RECURSIVE ShapeLoop(_, _, _, _)
ShapeLoop(f, glyphs, px, st) ==
    IF glyphs = <<>> THEN st
    ELSE ShapeLoop(f, Tail(glyphs), px, ShapeStep(f, Head(glyphs), px, st))

\* the locals of shape_and_measure when its loop has ended
ShapeLocals(f, t, px) == ShapeLoop(f, HbShape(t), px, ShapeStart)

\* the value returned: None, or (bbox, placements, glyph_names)
ShapeReturn(st) ==
    IF st.min_x = PosInf THEN None
    ELSE [bbox |-> <<st.min_x, st.min_y, st.max_x, st.max_y>>,
          placements |-> st.placements,
          glyph_names |-> st.glyph_names]

shape_and_measure(f, t, px) == ShapeReturn(ShapeLocals(f, t, px))

-----------------------------------------------------------------------------
(* make_text_mask *)

\* the glyph images pasted into the mask, in order
RECURSIVE MaskPastes(_, _, _)
MaskPastes(placements, min_x, min_y) ==
    IF placements = <<>> THEN <<>>
    ELSE LET p == Head(placements)
             rest == MaskPastes(Tail(placements), min_x, min_y)
         IN  IF p.width <= 0 \/ p.height <= 0 THEN rest
             ELSE <<[x |-> RoundHalfEven(p.x - min_x, UnitsPerEm),
                     y |-> RoundHalfEven(p.y - min_y, UnitsPerEm),
                     width |-> p.width, height |-> p.height]>> \o rest

make_text_mask(bbox, placements) ==
    [text_width |-> Max(1, RoundHalfEven(bbox[3] - bbox[1], UnitsPerEm)),
     text_height |-> Max(1, RoundHalfEven(bbox[4] - bbox[2], UnitsPerEm)),
     pastes |-> MaskPastes(placements, bbox[1], bbox[2])]

-----------------------------------------------------------------------------
(* build_avatar: the auto-fit search *)

\* Variant of MaxPx: 0.80 in place of 0.70
MaxPxWide(n) == Max(220, (8 * n) \div 10)

MaxPx(n) == Max(220, IntMul070(n))
MinPx(n) == Max(64, IntMul008(n))
StepPx(n) == Max(2, IntDiv170(n))

\* Variant of RangeLen: the last term is left out
RangeLenShort(start, stop, step) ==
    IF start > stop THEN (start - stop - 1) \div step ELSE 0

\* range(start, stop, -step) for step > 0 holds the terms start,
\* start - step, ... that are greater than stop: its length and i-th term
\* as range() computes them
RangeLen(start, stop, step) ==
    IF start > stop THEN (start - stop - 1) \div step + 1 ELSE 0
RangeAt(start, step, i) == start - (i - 1) * step

\* range(max_px, min_px - 1, -step)
NumCandidates(n) == RangeLen(MaxPx(n), MinPx(n) - 1, StepPx(n))
CandidateAt(n, i) == RangeAt(MaxPx(n), StepPx(n), i)
Candidates(n) == [i \in 1..NumCandidates(n) |-> CandidateAt(n, i)]

\* Variant of Fits: the height is not tested
FitsWidthOnly(bbox, n, wr, hr) ==
    (bbox[3] - bbox[1]) * 100 <= n * wr * UnitsPerEm

\* width <= target_w and height <= target_h, the targets being
\* size * ratio with the ratio in hundredths
Fits(bbox, n, wr, hr) ==
    /\ (bbox[3] - bbox[1]) * 100 <= n * wr * UnitsPerEm
    /\ (bbox[4] - bbox[2]) * 100 <= n * hr * UnitsPerEm

\* chosen = (px_size, bbox, placements, names)
Choice(px, shaped) ==
    [px |-> px, bbox |-> shaped.bbox, placements |-> shaped.placements,
     glyph_names |-> shaped.glyph_names]

\* The body of the for loop at candidate px, on the loop's state: the sizes
\* shaped so far and the candidate chosen.  After the break no body runs.
LoopBody(st, px, f, t, n, wr, hr) ==
    IF st.chosen # None THEN st
    ELSE LET shaped == shape_and_measure(f, t, px)
         IN  IF shaped = None
             THEN [tried |-> Append(st.tried, px), chosen |-> None]
             ELSE IF Fits(shaped.bbox, n, wr, hr)
             THEN [tried |-> Append(st.tried, px), chosen |-> Choice(px, shaped)]
             ELSE [tried |-> Append(st.tried, px), chosen |-> None]

\* The iterations lo..hi of the for loop, in order: the first half, then,
\* unless it ended in the break, the second half (halving keeps the
\* evaluation shallow).
RECURSIVE SearchLoop(_, _, _, _, _, _, _, _)
SearchLoop(lo, hi, st, f, t, n, wr, hr) ==
    IF lo > hi THEN st
    ELSE IF lo = hi THEN LoopBody(st, CandidateAt(n, lo), f, t, n, wr, hr)
    ELSE LET mid == (lo + hi) \div 2
             first == SearchLoop(lo, mid, st, f, t, n, wr, hr)
         IN  IF first.chosen # None THEN first
             ELSE SearchLoop(mid + 1, hi, first, f, t, n, wr, hr)

\* lines 157-161: the font file is opened and handed to both libraries
LoadFont ==
    /\ pc = "build"
    /\ font_loaded' = TRUE
    /\ pc' = "search"
    /\ UNCHANGED <<raised, args, features, bg, fg, text, face, shape, size,
                   glow_color, glow_blur, fit_width_ratio, fit_height_ratio,
                   passes, chosen, text_mask, canvas, fs, returned,
                   value, color, px_size, measured>>

\* lines 163-181: the whole for loop
Search ==
    /\ pc = "search"
    /\ LET r == SearchLoop(1, NumCandidates(size),
                           [tried |-> <<>>, chosen |-> None],
                           face, text, size, fit_width_ratio, fit_height_ratio)
       IN  /\ passes' = passes \o r.tried
           /\ chosen' = r.chosen
    /\ pc' = "after_search"
    /\ UNCHANGED <<raised, args, features, bg, fg, text, face, shape, size,
                   glow_color, glow_blur, fit_width_ratio, fit_height_ratio,
                   font_loaded, text_mask, canvas, fs, returned,
                   value, color, px_size, measured>>

\* Variant of Fallback: an EMPTY pass at 220 is taken as an empty box
FallbackUnchecked ==
    /\ pc = "after_search"
    /\ chosen = None
    /\ LET shaped == shape_and_measure(face, text, 220)
       IN  /\ passes' = Append(passes, 220)
           /\ chosen' = IF shaped = None
                        THEN [px |-> 220, bbox |-> <<0, 0, 0, 0>>,
                              placements |-> <<>>, glyph_names |-> <<>>]
                        ELSE Choice(220, shaped)
    /\ pc' = "mask"
    /\ UNCHANGED <<raised, args, features, bg, fg, text, face, shape, size,
                   glow_color, glow_blur, fit_width_ratio, fit_height_ratio,
                   font_loaded, text_mask, canvas, fs, returned,
                   value, color, px_size, measured>>

\* Variant of Fallback: the pass at 220 must fit the target box as well
FallbackFitTested ==
    /\ pc = "after_search"
    /\ chosen = None
    /\ LET shaped == shape_and_measure(face, text, 220)
           usable == shaped # None
                     /\ Fits(shaped.bbox, size, fit_width_ratio, fit_height_ratio)
       IN  /\ passes' = Append(passes, 220)
           /\ IF usable
              THEN /\ chosen' = Choice(220, shaped)
                   /\ pc' = "mask"
                   /\ raised' = raised
              ELSE /\ raised' = "RuntimeError: Shaping produced no drawable glyphs."
                   /\ pc' = "raised"
                   /\ chosen' = chosen
    /\ UNCHANGED <<args, features, bg, fg, text, face, shape, size,
                   glow_color, glow_blur, fit_width_ratio, fit_height_ratio,
                   font_loaded, text_mask, canvas, fs, returned,
                   value, color, px_size, measured>>

\* lines 183-188: nothing was chosen; one more pass at 220 pixels
Fallback ==
    /\ pc = "after_search"
    /\ chosen = None
    /\ LET shaped == shape_and_measure(face, text, 220)
       IN  /\ passes' = Append(passes, 220)
           /\ IF shaped = None
              THEN /\ raised' = "RuntimeError: Shaping produced no drawable glyphs."
                   /\ pc' = "raised"
                   /\ chosen' = chosen
              ELSE /\ chosen' = Choice(220, shaped)
                   /\ pc' = "mask"
                   /\ raised' = raised
    /\ UNCHANGED <<args, features, bg, fg, text, face, shape, size,
                   glow_color, glow_blur, fit_width_ratio, fit_height_ratio,
                   font_loaded, text_mask, canvas, fs, returned,
                   value, color, px_size, measured>>

\* line 183 when a candidate was chosen
Accepted ==
    /\ pc = "after_search"
    /\ chosen # None
    /\ pc' = "mask"
    /\ UNCHANGED <<raised, args, features, bg, fg, text, face, shape, size,
                   glow_color, glow_blur, fit_width_ratio, fit_height_ratio,
                   font_loaded, passes, chosen, text_mask, canvas, fs, returned,
                   value, color, px_size, measured>>

-----------------------------------------------------------------------------
(* build_avatar: compositing *)

\* lines 190-191
MakeMask ==
    /\ pc = "mask"
    /\ text_mask' = make_text_mask(chosen.bbox, chosen.placements)
    /\ pc' = "canvas"
    /\ UNCHANGED <<raised, args, features, bg, fg, text, face, shape, size,
                   glow_color, glow_blur, fit_width_ratio, fit_height_ratio,
                   font_loaded, passes, chosen, canvas, fs, returned,
                   value, color, px_size, measured>>

Transparent == <<0, 0, 0, 0>>

\* the canvas of lines 193-201 for a shape; None for any other shape
NewCanvas(sh, n, bg_color) ==
    IF sh = "circle"
    THEN [size |-> n, fill |-> Transparent,
          pastes |-> <<[layer |-> "background", color |-> bg_color,
                        x |-> 0, y |-> 0, mask |-> "circle_mask"]>>]
    ELSE IF sh = "square"
    THEN [size |-> n, fill |-> bg_color, pastes |-> <<>>]
    ELSE None

\* lines 193-203
MakeCanvas ==
    /\ pc = "canvas"
    /\ LET c == NewCanvas(shape, size, bg)
       IN  IF c = None
           THEN /\ raised' = "ValueError: Unsupported shape"
                /\ pc' = "raised"
                /\ canvas' = canvas
           ELSE /\ canvas' = c
                /\ pc' = "glow"
                /\ raised' = raised
    /\ UNCHANGED <<args, features, bg, fg, text, face, shape, size,
                   glow_color, glow_blur, fit_width_ratio, fit_height_ratio,
                   font_loaded, passes, chosen, text_mask, fs, returned,
                   value, color, px_size, measured>>

\* lines 205-206
TextX(n, mask) == (n - mask.text_width) \div 2
TextY(n, mask) == (n - mask.text_height) \div 2

\* Variant of GlowWanted: "or" in place of "and"
GlowWantedEither(blur, glow) == blur > 0 \/ glow[4] > 0

\* line 208
GlowWanted(blur, glow) == blur > 0 /\ glow[4] > 0

Paste(c, layer) == [c EXCEPT !.pastes = Append(@, layer)]

\* lines 208-211
Glow ==
    /\ pc = "glow"
    /\ canvas' = IF GlowWanted(glow_blur, glow_color)
                 THEN Paste(canvas, [layer |-> "glow", color |-> glow_color,
                                     x |-> TextX(size, text_mask),
                                     y |-> TextY(size, text_mask),
                                     mask |-> "glow_alpha"])
                 ELSE canvas
    /\ pc' = "foreground"
    /\ UNCHANGED <<raised, args, features, bg, fg, text, face, shape, size,
                   glow_color, glow_blur, fit_width_ratio, fit_height_ratio,
                   font_loaded, passes, chosen, text_mask, fs, returned,
                   value, color, px_size, measured>>

\* lines 213-214
Foreground ==
    /\ pc = "foreground"
    /\ canvas' = Paste(canvas, [layer |-> "foreground", color |-> fg,
                                x |-> TextX(size, text_mask),
                                y |-> TextY(size, text_mask),
                                mask |-> "text_mask"])
    /\ pc' = "mkdir"
    /\ UNCHANGED <<raised, args, features, bg, fg, text, face, shape, size,
                   glow_color, glow_blur, fit_width_ratio, fit_height_ratio,
                   font_loaded, passes, chosen, text_mask, fs, returned,
                   value, color, px_size, measured>>

\* line 216
MkDir ==
    /\ pc = "mkdir"
    /\ fs' = Append(fs, [op |-> "mkdir"])
    /\ pc' = "save"
    /\ UNCHANGED <<raised, args, features, bg, fg, text, face, shape, size,
                   glow_color, glow_blur, fit_width_ratio, fit_height_ratio,
                   font_loaded, passes, chosen, text_mask, canvas, returned,
                   value, color, px_size, measured>>

\* line 217: the file holds the canvas as it is now
Save ==
    /\ pc = "save"
    /\ fs' = Append(fs, [op |-> "save", image |-> canvas])
    /\ pc' = "return"
    /\ UNCHANGED <<raised, args, features, bg, fg, text, face, shape, size,
                   glow_color, glow_blur, fit_width_ratio, fit_height_ratio,
                   font_loaded, passes, chosen, text_mask, canvas, returned,
                   value, color, px_size, measured>>

\* line 219; a run of main goes on to print
Return ==
    /\ pc = "return"
    /\ returned' = [font_px |-> chosen.px, glyph_names |-> chosen.glyph_names]
    /\ pc' = IF args = None THEN "done" ELSE "print"
    /\ UNCHANGED <<raised, args, features, bg, fg, text, face, shape, size,
                   glow_color, glow_blur, fit_width_ratio, fit_height_ratio,
                   font_loaded, passes, chosen, text_mask, canvas, fs,
                   value, color, px_size, measured>>

\* the statements of build_avatar
BuildNext ==
    \/ LoadFont
    \/ Search
    \/ Fallback
    \/ Accepted
    \/ MakeMask
    \/ MakeCanvas
    \/ Glow
    \/ Foreground
    \/ MkDir
    \/ Save
    \/ Return

-----------------------------------------------------------------------------
(* A direct call of build_avatar *)

\* all texts of at most n characters
TextsUpTo(n) == UNION {[1..k -> TextChars] : k \in 0..n}

\* The arguments the calls are drawn from.  The third size is one at which
\* max_px is cut short by the float product and min_px lies above 220.
BuildTexts == {<<>>, <<" ">>, <<"A">>, <<"-">>, <<"A", "^">>, <<" ", "A">>}
Sizes == {512, 1024, 2800}
Shapes == {"circle", "square", "hexagon"}
GlowAlphas == {0, 190}
GlowBlurs == {0, 8}
FitRatios == {<<72, 36>>}

Black == <<0, 0, 0, 255>>
White == <<255, 255, 255, 255>>
GlowRGB(alpha) == <<94, 129, 172, alpha>>

\* nothing has run yet
Fresh ==
    /\ raised = "none"
    /\ font_loaded = FALSE
    /\ passes = <<>>
    /\ chosen = None
    /\ text_mask = None
    /\ canvas = None
    /\ fs = <<>>
    /\ returned = None

\* no parse_color or shape_and_measure call is under test
NoUnitCall ==
    /\ value = None
    /\ color = None
    /\ px_size = 0
    /\ measured = None

InitBuild ==
    /\ pc = "build"
    /\ args = None
    /\ features = None
    /\ bg = Black
    /\ fg = White
    /\ text \in BuildTexts
    /\ face \in Faces
    /\ shape \in Shapes
    /\ size \in Sizes
    /\ glow_color \in {GlowRGB(a) : a \in GlowAlphas}
    /\ glow_blur \in GlowBlurs
    /\ \E r \in FitRatios : fit_width_ratio = r[1] /\ fit_height_ratio = r[2]
    /\ Fresh
    /\ NoUnitCall

SpecBuild == InitBuild /\ [][BuildNext]_vars

-----------------------------------------------------------------------------
(* main *)

\* "a=1,,b", "" and two malformed specs, "a=x" and "a=1, b="
FeatureTexts ==
    {<<"a", "=", "1", ",", ",", "b">>,
     <<>>,
     <<"a", "=", "x">>,
     <<"a", "=", "1", ",", " ", "b", "=">>}

\* "#0f0f0f" and "0f0f0"
BgTexts == {<<"#", "0", "f", "0", "f", "0", "f">>, <<"0", "f", "0", "f", "0">>}
\* "FFFFFF" and "gFFFFF"
FgTexts == {<<"F", "F", "F", "F", "F", "F">>, <<"g", "F", "F", "F", "F", "F">>}
\* " #1f1f1f", "+f+f+f" and "#fff"
GlowTexts ==
    {<<" ", "#", "1", "f", "1", "f", "1", "f">>,
     <<"+", "f", "+", "f", "+", "f">>,
     <<"#", "f", "f", "f">>}

\* the fonts a font file of the runs of main may hold
MainFaces ==
    {[hi |-> "scaled", mid |-> "scaled", lo |-> "scaled"],
     [hi |-> "strike", mid |-> "scaled", lo |-> "blank"]}

\* parse_args: the namespace argparse hands over, --shape among its choices
Namespaces ==
    [features : FeatureTexts, font_exists : BOOLEAN, text : {<<"A">>, <<" ">>},
     shape : {"circle", "square"}, size : {512}, fit_width_ratio : {72},
     fit_height_ratio : {36}, bg : BgTexts, fg : FgTexts, glow : GlowTexts,
     glow_alpha : {-5, 190, 300}, glow_blur : {0, 8}]

InitMain ==
    /\ pc = "main"
    /\ args \in Namespaces
    /\ features = None
    /\ bg = None
    /\ fg = None
    /\ text = None
    /\ face \in IF args.font_exists THEN MainFaces ELSE {None}
    /\ shape = None
    /\ size = None
    /\ glow_color = None
    /\ glow_blur = None
    /\ fit_width_ratio = None
    /\ fit_height_ratio = None
    /\ Fresh
    /\ NoUnitCall

\* line 245
ParseFeatures ==
    /\ pc = "main"
    /\ LET r == parse_features(args.features)
       IN  IF r.ok
           THEN /\ features' = r.features
                /\ pc' = "font"
                /\ raised' = raised
           ELSE /\ raised' = "ValueError: invalid literal for int()"
                /\ pc' = "raised"
                /\ features' = features
    /\ UNCHANGED <<args, bg, fg, text, face, shape, size,
                   glow_color, glow_blur, fit_width_ratio, fit_height_ratio,
                   font_loaded, passes, chosen, text_mask, canvas, fs, returned,
                   value, color, px_size, measured>>

\* lines 247-249
CheckFont ==
    /\ pc = "font"
    /\ IF args.font_exists
       THEN pc' = "bg" /\ raised' = raised
       ELSE pc' = "raised" /\ raised' = "FileNotFoundError: Font not found"
    /\ UNCHANGED <<args, features, bg, fg, text, face, shape, size,
                   glow_color, glow_blur, fit_width_ratio, fit_height_ratio,
                   font_loaded, passes, chosen, text_mask, canvas, fs, returned,
                   value, color, px_size, measured>>

\* line 251
ParseBg ==
    /\ pc = "bg"
    /\ LET r == parse_color(args.bg, 255)
       IN  IF r.ok
           THEN bg' = r.rgba /\ pc' = "fg" /\ raised' = raised
           ELSE bg' = bg /\ pc' = "raised"
                /\ raised' = "ValueError: hex color"
    /\ UNCHANGED <<args, features, fg, text, face, shape, size,
                   glow_color, glow_blur, fit_width_ratio, fit_height_ratio,
                   font_loaded, passes, chosen, text_mask, canvas, fs, returned,
                   value, color, px_size, measured>>

\* line 252
ParseFg ==
    /\ pc = "fg"
    /\ LET r == parse_color(args.fg, 255)
       IN  IF r.ok
           THEN fg' = r.rgba /\ pc' = "glow_color" /\ raised' = raised
           ELSE fg' = fg /\ pc' = "raised"
                /\ raised' = "ValueError: hex color"
    /\ UNCHANGED <<args, features, bg, text, face, shape, size,
                   glow_color, glow_blur, fit_width_ratio, fit_height_ratio,
                   font_loaded, passes, chosen, text_mask, canvas, fs, returned,
                   value, color, px_size, measured>>

\* Variant of ParseGlow: a bad glow colour is replaced by the default one
ParseGlowLenient ==
    /\ pc = "glow_color"
    /\ LET alpha == Max(0, Min(255, args.glow_alpha))
           r == parse_color(args.glow, alpha)
       IN  glow_color' = IF r.ok THEN r.rgba ELSE <<94, 129, 172, alpha>>
    /\ pc' = "call"
    /\ UNCHANGED <<raised, args, features, bg, fg, text, face, shape, size,
                   glow_blur, fit_width_ratio, fit_height_ratio,
                   font_loaded, passes, chosen, text_mask, canvas, fs, returned,
                   value, color, px_size, measured>>

\* line 253: the alpha is clamped to 0..255
ParseGlow ==
    /\ pc = "glow_color"
    /\ LET r == parse_color(args.glow, Max(0, Min(255, args.glow_alpha)))
       IN  IF r.ok
           THEN glow_color' = r.rgba /\ pc' = "call" /\ raised' = raised
           ELSE glow_color' = glow_color /\ pc' = "raised"
                /\ raised' = "ValueError: hex color"
    /\ UNCHANGED <<args, features, bg, fg, text, face, shape, size,
                   glow_blur, fit_width_ratio, fit_height_ratio,
                   font_loaded, passes, chosen, text_mask, canvas, fs, returned,
                   value, color, px_size, measured>>

\* lines 255-269: the call binds the parameters of build_avatar
CallBuildAvatar ==
    /\ pc = "call"
    /\ text' = args.text
    /\ shape' = args.shape
    /\ size' = args.size
    /\ glow_blur' = args.glow_blur
    /\ fit_width_ratio' = args.fit_width_ratio
    /\ fit_height_ratio' = args.fit_height_ratio
    /\ pc' = "build"
    /\ UNCHANGED <<raised, args, features, bg, fg, face, glow_color,
                   font_loaded, passes, chosen, text_mask, canvas, fs, returned,
                   value, color, px_size, measured>>

\* lines 271-274
PrintSummary ==
    /\ pc = "print"
    /\ pc' = "done"
    /\ UNCHANGED <<raised, args, features, bg, fg, text, face, shape, size,
                   glow_color, glow_blur, fit_width_ratio, fit_height_ratio,
                   font_loaded, passes, chosen, text_mask, canvas, fs, returned,
                   value, color, px_size, measured>>

MainNext ==
    \/ ParseFeatures
    \/ CheckFont
    \/ ParseBg
    \/ ParseFg
    \/ ParseGlow
    \/ CallBuildAvatar
    \/ PrintSummary
    \/ BuildNext

SpecMain == InitMain /\ [][MainNext]_vars

-----------------------------------------------------------------------------
(* One call of shape_and_measure *)

PxSamples == {64, 220, 358, 716}

\* no run of main or build_avatar is under way
NoRun ==
    /\ args = None
    /\ features = None
    /\ bg = None
    /\ fg = None
    /\ shape = None
    /\ size = None
    /\ glow_color = None
    /\ glow_blur = None
    /\ fit_width_ratio = None
    /\ fit_height_ratio = None
    /\ Fresh

InitShape ==
    /\ pc = "shape_and_measure"
    /\ text \in TextsUpTo(MaxGlyphs)
    /\ face \in Faces
    /\ px_size \in PxSamples
    /\ measured = None
    /\ value = None
    /\ color = None
    /\ NoRun

\* lines 61-119
Measure ==
    /\ pc = "shape_and_measure"
    /\ measured' = [locals |-> ShapeLocals(face, text, px_size),
                    result |-> shape_and_measure(face, text, px_size)]
    /\ pc' = "done"
    /\ UNCHANGED <<raised, args, features, bg, fg, text, face, shape, size,
                   glow_color, glow_blur, fit_width_ratio, fit_height_ratio,
                   font_loaded, passes, chosen, text_mask, canvas, fs, returned,
                   value, color, px_size>>

SpecShape == InitShape /\ [][Measure]_vars

-----------------------------------------------------------------------------
(* One call of parse_color *)

StrayChars == {"#", " ", "+", "-", "_", "g"}

\* the strings of n characters, each "f" or one of at most k stray ones
RECURSIVE Strings(_, _)
Strings(n, k) ==
    IF n = 0 THEN {<<>>}
    ELSE {<<"f">> \o s : s \in Strings(n - 1, k)}
         \cup (IF k = 0 THEN {}
               ELSE {<<c>> \o s : c \in StrayChars, s \in Strings(n - 1, k - 1)})

\* one character less than a colour, a colour's length, and one more (the "#")
ColorTexts == UNION {Strings(n, MaxStray) : n \in 5..7}

InitColor ==
    /\ pc = "parse_color"
    /\ value \in ColorTexts
    /\ color = None
    /\ px_size = 0
    /\ measured = None
    /\ text = None
    /\ face = None
    /\ NoRun

\* lines 27-36
ParseColor ==
    /\ pc = "parse_color"
    /\ color' = parse_color(value, 255)
    /\ pc' = "done"
    /\ UNCHANGED <<raised, args, features, bg, fg, text, face, shape, size,
                   glow_color, glow_blur, fit_width_ratio, fit_height_ratio,
                   font_loaded, passes, chosen, text_mask, canvas, fs, returned,
                   value, px_size, measured>>

SpecColor == InitColor /\ [][ParseColor]_vars

-----------------------------------------------------------------------------
(* The program as a whole: a run of main, a direct call of build_avatar, or
   a call of one of the two functions on its own *)

Init == InitMain \/ InitBuild \/ InitShape \/ InitColor
Next == MainNext \/ Measure \/ ParseColor
Spec == Init /\ [][Next]_vars

-----------------------------------------------------------------------------
(* What the claims speak of *)

SetMax(S) == CHOOSE x \in S : \A y \in S : y <= x
SetMin(S) == CHOOSE x \in S : \A y \in S : x <= y

\* the run is over: build_avatar or main returned, or an exception ended it
Ended == pc \in {"done", "raised"}

NoGlyphsError == "RuntimeError: Shaping produced no drawable glyphs."
ShapeError == "ValueError: Unsupported shape"

\* the sizes the claims give the search
ClaimMaxPx == Max(220, IntMul070(size))
ClaimMinPx == Max(64, IntMul008(size))
ClaimStep == Max(2, IntDiv170(size))
ClaimSizes ==
    LET top == ClaimMaxPx
        step == ClaimStep
    IN  {top - k * step : k \in 0..((top - ClaimMinPx) \div step)}
IsClaimSize(p) ==
    ClaimMinPx <= p /\ p <= ClaimMaxPx /\ (ClaimMaxPx - p) % ClaimStep = 0

\* what a pass at px gives for the text and font of the run
PassAt(px) == shape_and_measure(face, text, px)
Overflows(bbox) ==
    \/ (bbox[3] - bbox[1]) * 100 > size * fit_width_ratio * UnitsPerEm
    \/ (bbox[4] - bbox[2]) * 100 > size * fit_height_ratio * UnitsPerEm
FitsAt(px) == LET r == PassAt(px) IN r # None /\ ~Overflows(r.bbox)
FittingSizes == {p \in ClaimSizes : FitsAt(p)}

Saves == {i \in 1..Len(fs) : fs[i].op = "save"}
PasteIndex(layer) ==
    IF canvas = None THEN {}
    ELSE {i \in 1..Len(canvas.pastes) : canvas.pastes[i].layer = layer}

-----------------------------------------------------------------------------
(* The claims *)

\* C1: when some candidate size of the descending sequence shapes to a
\* non-EMPTY result that fits the target box, the search chooses the largest
\* such candidate with the bounding box and placements of the pass at that
\* size, no pass is ever made at a smaller size, and a run that returns
\* returns that size.
C1_FirstFitIsLargest ==
    (Ended /\ FittingSizes # {}) =>
        LET best == SetMax(FittingSizes)
        IN  /\ chosen # None
            /\ chosen.px = best
            /\ chosen.bbox = PassAt(best).bbox
            /\ chosen.placements = PassAt(best).placements
            /\ \A i \in 1..Len(passes) : passes[i] >= best
            /\ passes[Len(passes)] = best
            /\ returned # None => returned.font_px = best

\* C1's case: a run returned a size below which further candidates fit and
\* above which a candidate was shaped and turned down.
C1_Witness ==
    /\ pc = "done"
    /\ returned # None
    /\ Len(passes) > 1
    /\ \E p \in FittingSizes : p < returned.font_px
    /\ returned.font_px = SetMax(FittingSizes)

\* C2: when every candidate size and the 220-pixel fallback shape to EMPTY,
\* the run ends with the "no drawable glyphs" error, and no directory is made
\* and no file saved at any point of it.
C2_NoGlyphsIsFatal ==
    (\A p \in ClaimSizes \cup {220} : PassAt(p) = None) =>
        /\ fs = <<>>
        /\ canvas = None
        /\ returned = None
        /\ Ended => (pc = "raised" /\ raised = NoGlyphsError)

\* C2's case: the run has shaped every candidate and 220 to EMPTY and ended.
C2_Witness ==
    /\ pc = "raised"
    /\ raised = NoGlyphsError
    /\ text # <<>>
    /\ Len(passes) = Cardinality(ClaimSizes) + 1
    /\ \A p \in ClaimSizes \cup {220} : PassAt(p) = None

\* C3: with a shape other than "circle" or "square" no shaping pass is made,
\* no mask is built, no canvas is pasted on and no file is written, and the
\* run ends with the invalid-shape error.
C3_InvalidShapeFailsFirst ==
    shape \notin {"circle", "square"} =>
        /\ passes = <<>>
        /\ text_mask = None
        /\ canvas = None
        /\ fs = <<>>
        /\ Ended => raised = ShapeError

\* C4: a run that returns returns a pixel size between
\* max(64, int(0.08*size)) and max(220, int(0.70*size)).
C4_ReturnedSizeInRange ==
    returned # None =>
        /\ ClaimMinPx <= returned.font_px
        /\ returned.font_px <= ClaimMaxPx

\* C4 as amended: a run that returns returns a size of at most
\* max(220, int(0.70*size)); the size is at least max(64, int(0.08*size))
\* when it was an accepted candidate, and also when it is the fallback
\* provided int(0.08*size) <= 220; the fallback returns 220 whatever min_px.
C4_ReturnedSizeInRangeOrFallback ==
    returned # None =>
        LET px == returned.font_px
            fallback == passes[Len(passes)] = 220 /\ 220 \notin FittingSizes
        IN  /\ px <= ClaimMaxPx
            /\ ~fallback => ClaimMinPx <= px
            /\ fallback => px = 220
            /\ IntMul008(size) <= 220 => ClaimMinPx <= px

\* C4's case: a run returned the fallback size on a canvas whose min_px is
\* at most 220.
C4_Witness ==
    /\ returned # None
    /\ FittingSizes = {}
    /\ returned.font_px = 220
    /\ ClaimMinPx <= 220

\* the exceptions main raises for a bad configuration
ConfigErrors ==
    {"ValueError: invalid literal for int()",
     "FileNotFoundError: Font not found",
     "ValueError: hex color"}

NothingRendered ==
    /\ ~font_loaded
    /\ passes = <<>>
    /\ text_mask = None
    /\ canvas = None
    /\ fs = <<>>

\* C5: a run of main that ends with a configuration error (feature token,
\* missing font, hex colour) has loaded no font, made no pass, created no
\* canvas and written nothing; build_avatar is entered only when none of these
\* errors is raised; and with the font file missing nothing is ever written.
C5_ConfigErrorsBeforeBuild ==
    /\ (pc = "raised" /\ raised \in ConfigErrors) => NothingRendered
    /\ (pc \notin {"main", "font", "bg", "fg", "glow_color", "call", "raised"}
        \/ ~NothingRendered) =>
            /\ parse_features(args.features).ok
            /\ args.font_exists
            /\ parse_color(args.bg, 255).ok
            /\ parse_color(args.fg, 255).ok
            /\ parse_color(args.glow, 255).ok
    /\ ~args.font_exists => NothingRendered

\* C5's case: a run with good features and colours ended on the missing font.
C5_Witness ==
    /\ pc = "raised"
    /\ raised = "FileNotFoundError: Font not found"
    /\ parse_features(args.features).ok
    /\ parse_color(args.glow, 255).ok

\* C6: the glow layer is on the canvas only if glow_blur > 0 and the glow
\* alpha > 0, and once the glow statement has run it is there exactly then;
\* it lies directly under the foreground, at the same position; the
\* foreground is the last paste, made once; the file is written once and
\* holds the canvas with the foreground on top.
C6_GlowUnderForeground ==
    LET wanted == glow_blur > 0 /\ glow_color[4] > 0
        glows == PasteIndex("glow")
        fgs == PasteIndex("foreground")
    IN  /\ glows # {} => wanted
        /\ pc \in {"foreground", "mkdir", "save", "return", "print", "done"} =>
               (glows # {} <=> wanted)
        /\ Cardinality(glows) <= 1
        /\ pc \in {"mkdir", "save", "return", "print", "done"} =>
               /\ fgs = {Len(canvas.pastes)}
               /\ \A i \in glows :
                      /\ i = Len(canvas.pastes) - 1
                      /\ canvas.pastes[i].x = canvas.pastes[i + 1].x
                      /\ canvas.pastes[i].y = canvas.pastes[i + 1].y
                      /\ canvas.pastes[i].x = (size - text_mask.text_width) \div 2
                      /\ canvas.pastes[i].y = (size - text_mask.text_height) \div 2
        /\ pc \notin {"mkdir", "save", "return", "print", "done"} => fgs = {}
        /\ Cardinality(Saves) <= 1
        /\ \A i \in Saves :
               /\ fs[i].image = canvas
               /\ fs[i].image.pastes[Len(fs[i].image.pastes)].layer = "foreground"

\* C6's case: the file was written with a glow layer under the foreground.
C6_Witness ==
    /\ Saves # {}
    /\ PasteIndex("glow") # {}
    /\ PasteIndex("foreground") # {}

\* the string left when surrounding whitespace and one leading "#" are taken
\* off, and whether a string is exactly six hex digits
Bare(v) ==
    LET t == Strip(v)
    IN  IF t # <<>> /\ Head(t) = "#" THEN Tail(t) ELSE t
SixHexDigits(v) == Len(v) = 6 /\ \A i \in 1..6 : v[i] \in HexDigits

\* C7: parse_color raises ValueError for every string that, stripped of
\* surrounding whitespace and one leading "#", is not exactly six hex digits.
C7_RejectsAllButSixHexDigits ==
    (pc = "done" /\ ~SixHexDigits(Bare(value))) => ~color.ok

LoopExhausted == pc = "after_search" /\ chosen = None

Descending(seq) ==
    LET step == ClaimStep
    IN  /\ seq # <<>>
        /\ seq[1] = ClaimMaxPx
        /\ \A i \in 1..(Len(seq) - 1) : seq[i + 1] = seq[i] - step

\* C9: when nothing is accepted, the sizes shaped by the loop are max_px,
\* max_px - step, ... down to min_px itself, which is always shaped, and
\* nothing below min_px is shaped.
C9_SequenceEndsAtMinPx ==
    LoopExhausted =>
        /\ Descending(passes)
        /\ passes[Len(passes)] = ClaimMinPx

\* C9 as amended: when nothing is accepted, the sizes shaped by the loop are
\* max_px, max_px - step, ... down to the last term that is not below
\* min_px; min_px itself is shaped exactly when step divides max_px - min_px.
C9_SequenceEndsAboveMinPx ==
    LoopExhausted =>
        LET last == passes[Len(passes)]
        IN  /\ Descending(passes)
            /\ last >= ClaimMinPx
            /\ last - ClaimStep < ClaimMinPx
            /\ (\E i \in 1..Len(passes) : passes[i] = ClaimMinPx)
                   <=> (ClaimMaxPx - ClaimMinPx) % ClaimStep = 0

\* C9's case: the loop ended without a choice on a size above min_px.
C9_Witness ==
    /\ LoopExhausted
    /\ text # <<>>
    /\ passes[Len(passes)] > ClaimMinPx
    /\ passes[Len(passes)] - ClaimStep < ClaimMinPx

\* the advances of the first n glyphs, scaled
RECURSIVE PenAfter(_, _, _)
PenAfter(glyphs, n, px) ==
    IF n = 0 THEN 0 ELSE PenAfter(glyphs, n - 1, px) + glyphs[n].x_advance * px

\* C10: a pass makes one placement per glyph, in order, each at the pen
\* position reached by the advances of the glyphs before it; the pen ends
\* after all advances; the box is the minimum and maximum over exactly the
\* glyphs whose bitmap has width > 0 and height > 0; and the result is EMPTY
\* exactly when there is no such glyph.
C10_OnePlacementPerGlyph ==
    pc = "done" =>
        LET glyphs == HbShape(text)
            ps == measured.locals.placements
            bitmapOf(i) == LoadGlyph(face, glyphs[i].codepoint, px_size)
            inked == {i \in 1..Len(ps) : ps[i].width > 0 /\ ps[i].height > 0}
        IN  /\ Len(ps) = Len(glyphs)
            /\ \A i \in 1..Len(ps) :
                   /\ ps[i].width = bitmapOf(i).width
                   /\ ps[i].height = bitmapOf(i).rows
                   /\ ps[i].x = PenAfter(glyphs, i - 1, px_size)
                                + glyphs[i].x_offset * px_size
                                + bitmapOf(i).bitmap_left * UnitsPerEm
                   /\ ps[i].y = 0 - glyphs[i].y_offset * px_size
                                - bitmapOf(i).bitmap_top * UnitsPerEm
            /\ measured.locals.pen_x = PenAfter(glyphs, Len(glyphs), px_size)
            /\ measured.result = None <=> inked = {}
            /\ inked # {} =>
                   /\ measured.result.placements = ps
                   /\ measured.result.bbox =
                          <<SetMin({ps[i].x : i \in inked}),
                            SetMin({ps[i].y : i \in inked}),
                            SetMax({ps[i].x + ps[i].width * UnitsPerEm : i \in inked}),
                            SetMax({ps[i].y + ps[i].height * UnitsPerEm : i \in inked})>>

\* C10's case: a pass over a run that holds inked glyphs and at least one
\* glyph without a bitmap, which has its placement.
C10_Witness ==
    /\ pc = "done"
    /\ measured.result # None
    /\ \E i, j \in 1..Len(measured.result.placements) :
           /\ i < j
           /\ measured.result.placements[i].width = 0
           /\ measured.result.placements[j].width > 0
    /\ \E i \in 1..Len(measured.result.placements) :
           /\ measured.result.placements[i].width > 0
           /\ measured.result.placements[i].height = 0

=============================================================================
